---- MODULE Spec2Model ----
(***************************************************************************)
(* BlackRoad Archive, archive_core.py: the snapshots table, archive_file,  *)
(* verify_chain and list_snapshots, as the command line drives them.       *)
(*                                                                         *)
(* The store is the rows of the snapshots table in rowid order, which is   *)
(* the order of insertion.  SHA-256 is taken to be collision free on the   *)
(* inputs of the model; its 16-digit prefix, the primary key, is not: the  *)
(* model lets at most one pair of chain payloads share a prefix (twin).    *)
(***************************************************************************)
EXTENDS Integers, Sequences, FiniteSets, TLC

\* ------------------------------------------------------------------ bounds
MaxEntries == 2     \* rows the table may hold
MaxClock == 2       \* the wall clock runs from 0 to MaxClock nanoseconds
NsPerSec == 2       \* nanoseconds in a second, scaled down from 10^9

VARIABLES
    store,      \* the snapshots table: a sequence of rows in rowid order
    clock,      \* the wall clock, in nanoseconds
    result,     \* what the last operation returned
    twin,       \* the chain payloads whose hashes share their first 16 digits
    tampered,   \* the one direct write to the table file, if any
    writers,    \* concurrent archive_file calls: what each has built so far
    scan        \* a concurrent verify_chain call: the rows it has fetched

vars == <<store, clock, result, twin, tampered, writers, scan>>

\* The state of the calls that run concurrently with one another.
procs == <<writers, scan>>

\* ------------------------------------------------------------ file system
Paths == {"a", "b", "locked", "missing"}
Tags == {"", "t"}

\* The files on disk that can be read, and their bytes.
FileContent == [a |-> <<1>>, b |-> <<2, 2>>]

\* The files on disk that open() refuses; "missing" is not on disk.
Unreadable == {"locked"}

path_exists(path) == path \in DOMAIN FileContent \cup Unreadable

\* ----------------------------------------------------------------- hashes
GENESIS == [lit |-> "GENESIS"]

None == [lit |-> "None"]

\* hashlib.sha256 over the bytes of the file, read in chunks.
sha256_file(path) == [sha256 |-> FileContent[path]]

\* sha256 of the text "{prev}:{content_hash}:{timestamp_ns}".
ps_sha_hash(prev, content_hash, timestamp_ns) ==
    [sha256 |-> <<prev, content_hash, timestamp_ns>>]

\* s[:16] of a hex digest: the digests of the payloads in twin agree on it.
Prefix16(digest) ==
    IF digest.sha256 \in twin
    THEN [first16 |-> CHOOSE p \in twin : TRUE]
    ELSE [first16 |-> digest.sha256]

\* s[:12] + "..." of a content digest, as list_snapshots shows it.
Prefix12(digest) ==
    [first12 |-> IF digest.sha256 = <<>> THEN 0 ELSE Head(digest.sha256)]

Payloads ==
    {<<GENESIS, sha256_file(p), t>> : p \in DOMAIN FileContent, t \in 0..MaxClock}

\* The pairs of payloads that may collide on the prefix, and no pair at all.
Twins == {{}} \cup {pr \in SUBSET Payloads : Cardinality(pr) = 2}

\* ------------------------------------------------------------------ rows
\* Snapshot.id
Snapshot_id(snap) == Prefix16(snap.ps_sha)

\* The nine columns of the INSERT, in the order of the table.
RowOf(snap) ==
    [id |-> Snapshot_id(snap), path |-> snap.path, sha256 |-> snap.sha256,
     ps_sha |-> snap.ps_sha, prev_ps_sha |-> snap.prev_ps_sha,
     size_bytes |-> snap.size_bytes, archived_at |-> snap.archived_at,
     ipfs_cid |-> snap.ipfs_cid, tags |-> snap.tags]

\* A plain INSERT on a table that has no key.
InsertOrReplace_NoKey(rows, row) == Append(rows, row)

\* INSERT OR REPLACE on a table whose primary key is id: the row that holds
\* the key is deleted, and the new row gets the next rowid.
InsertOrReplace(rows, row) ==
    Append(SelectSeq(rows, LAMBDA r : r.id # row.id), row)

\* int(time.time()), the wall clock in whole seconds.
Seconds(ns) == ns \div NsPerSec

\* archive_file past its existence check: the Snapshot it builds.
MakeSnapshot(path, tags, prev_ps_sha, ts) ==
    LET sha == sha256_file(path)
    IN  [path |-> path, sha256 |-> sha,
         ps_sha |-> ps_sha_hash(prev_ps_sha, sha, ts),
         prev_ps_sha |-> prev_ps_sha,
         size_bytes |-> Len(FileContent[path]),
         archived_at |-> Seconds(ts),
         ipfs_cid |-> None, tags |-> tags]

\* ------------------------------------------------------------- orderings
Injections(n) == {f \in [1..n -> 1..n] : \A i, j \in 1..n : f[i] = f[j] => i = j}

\* The orders in which a SELECT ... ORDER BY archived_at may return the
\* rows: sorted on archived_at, rows of equal archived_at in any order.
OrderedByArchivedAt(rows) ==
    {[i \in 1..Len(rows) |-> rows[f[i]]] : f \in
        {g \in Injections(Len(rows)) :
            \A i, j \in 1..Len(rows) :
                i < j => rows[g[i]].archived_at <= rows[g[j]].archived_at}}

\* The same with ORDER BY archived_at DESC.
OrderedByArchivedAtDesc(rows) ==
    {[i \in 1..Len(rows) |-> rows[f[i]]] : f \in
        {g \in Injections(Len(rows)) :
            \A i, j \in 1..Len(rows) :
                i < j => rows[g[i]].archived_at >= rows[g[j]].archived_at}}

\* The columns verify_chain selects.
VerifyColumns(r) ==
    [ps_sha |-> r.ps_sha, prev_ps_sha |-> r.prev_ps_sha, sha256 |-> r.sha256,
     archived_at |-> r.archived_at]

\* The dictionary list_snapshots builds of a row.
ListItem(r) ==
    [id |-> r.id, path |-> r.path, sha256 |-> Prefix12(r.sha256),
     at |-> r.archived_at, size |-> r.size_bytes, tags |-> r.tags]

\* ----------------------------------------------------------- verify_chain
ChainBreak(i) == [entry |-> i, msg |-> "Chain break: prev_ps_sha mismatch"]

\* IsBreak without its second test: a row whose prev_ps_sha is GENESIS is a
\* break too, unless the row before it is none.
IsBreak_Strict(prev_ps, prev) == prev_ps # prev

\* The test of the loop body on a row: is the row a break, given the ps_sha
\* of the row before it (GENESIS before the first).  The hash the code
\* recomputes with timestamp 0 is never compared and is left out.
IsBreak(prev_ps, prev) == prev_ps # prev /\ prev_ps # GENESIS

\* The loop leaving at its first issue.
RECURSIVE VerifyLoop_StopAtFirst(_, _, _, _)
VerifyLoop_StopAtFirst(rows, k, prev, issues) ==
    IF k > Len(rows) \/ issues # <<>> THEN issues
    ELSE VerifyLoop_StopAtFirst(rows, k + 1, rows[k].ps_sha,
                    IF IsBreak(rows[k].prev_ps_sha, prev)
                    THEN Append(issues, ChainBreak(k - 1))
                    ELSE issues)

\* The loop without its last line, prev = ps.
RECURSIVE VerifyLoop_NoCarry(_, _, _, _)
VerifyLoop_NoCarry(rows, k, prev, issues) ==
    IF k > Len(rows) THEN issues
    ELSE VerifyLoop_NoCarry(rows, k + 1, prev,
                    IF IsBreak(rows[k].prev_ps_sha, prev)
                    THEN Append(issues, ChainBreak(k - 1))
                    ELSE issues)

\* The loop of verify_chain from row k on, prev being the ps_sha of the row
\* before it and issues the messages so far.
RECURSIVE VerifyLoop(_, _, _, _)
VerifyLoop(rows, k, prev, issues) ==
    IF k > Len(rows) THEN issues
    ELSE VerifyLoop(rows, k + 1, rows[k].ps_sha,
                    IF IsBreak(rows[k].prev_ps_sha, prev)
                    THEN Append(issues, ChainBreak(k - 1))
                    ELSE issues)

\* The pair verify_chain returns for the rows it fetched.
verify_chain(rows) ==
    LET issues == VerifyLoop(rows, 1, GENESIS, <<>>)
    IN  [op |-> "verify", rows |-> rows, valid |-> Len(issues) = 0,
         issues |-> issues]

\* ------------------------------------------------------------------ state
NoResult == [op |-> "none"]

NoTamper == [field |-> "none"]

\* The processes that may run archive_file at the same time.
Writers == {1, 2}

\* A call that is not running.
Idle == [pc |-> "idle"]

Init ==
    /\ store = <<>>
    /\ clock = 0
    /\ result = NoResult
    /\ twin \in Twins
    /\ tampered = NoTamper
    /\ writers = [w \in Writers |-> Idle]
    /\ scan = Idle

\* The wall clock moves on.
Tick ==
    /\ clock < MaxClock
    /\ clock' = clock + 1
    /\ UNCHANGED <<store, result, twin, tampered, procs>>

\* archive_file with the INSERT ahead of the reading of the file: a file
\* that cannot be read leaves a row without its hashes.
archive_file_InsertFirst(path, tags, prev_ps_sha) ==
    IF ~path_exists(path)
    THEN /\ result' = [op |-> "archive", error |-> "FileNotFoundError"]
         /\ UNCHANGED store
    ELSE IF path \in Unreadable
    THEN /\ Len(store) < MaxEntries
         /\ store' = Append(store,
               [id |-> None, path |-> path, sha256 |-> None, ps_sha |-> None,
                prev_ps_sha |-> prev_ps_sha, size_bytes |-> 0,
                archived_at |-> Seconds(clock), ipfs_cid |-> None,
                tags |-> tags])
         /\ result' = [op |-> "archive", error |-> "PermissionError"]
    ELSE LET snap == MakeSnapshot(path, tags, prev_ps_sha, clock)
         IN  /\ Len(InsertOrReplace(store, RowOf(snap))) <= MaxEntries
             /\ store' = InsertOrReplace(store, RowOf(snap))
             /\ result' = [op |-> "archive", snap |-> snap]

\* archive_file(path, tags, prev_ps_sha): the row it stores and returns, or
\* the error it raises (FileNotFoundError of its own check, the error of
\* open() in sha256_file) with nothing stored.
archive_file(path, tags, prev_ps_sha) ==
    IF ~path_exists(path)
    THEN /\ result' = [op |-> "archive", error |-> "FileNotFoundError"]
         /\ UNCHANGED store
    ELSE IF path \in Unreadable
    THEN /\ result' = [op |-> "archive", error |-> "PermissionError"]
         /\ UNCHANGED store
    ELSE LET snap == MakeSnapshot(path, tags, prev_ps_sha, clock)
         IN  /\ Len(InsertOrReplace(store, RowOf(snap))) <= MaxEntries
             /\ store' = InsertOrReplace(store, RowOf(snap))
             /\ result' = [op |-> "archive", snap |-> snap]

\* The archive command: archive_file with its default prev_ps_sha.
Archive ==
    /\ \E path \in Paths, tags \in Tags : archive_file(path, tags, GENESIS)
    /\ UNCHANGED <<clock, twin, tampered, procs>>

\* A verify that deletes the rows it reports.
Verify_Pruning ==
    /\ \E rows \in OrderedByArchivedAt(store) :
          /\ result' = verify_chain([i \in 1..Len(rows) |-> VerifyColumns(rows[i])])
          /\ store' = SelectSeq(store, LAMBDA r :
                ~\E n \in 1..Len(result'.issues) :
                    rows[result'.issues[n].entry + 1] = r)
    /\ UNCHANGED <<clock, twin, tampered, procs>>

\* The verify command.
Verify ==
    /\ \E rows \in OrderedByArchivedAt(store) :
          result' = verify_chain([i \in 1..Len(rows) |-> VerifyColumns(rows[i])])
    /\ UNCHANGED <<store, clock, twin, tampered, procs>>

\* The list command.
List ==
    /\ \E rows \in OrderedByArchivedAtDesc(store) :
          result' = [op |-> "list",
                     items |-> [i \in 1..Len(rows) |-> ListItem(rows[i])]]
    /\ UNCHANGED <<store, clock, twin, tampered, procs>>

Next == Tick \/ Archive \/ Verify \/ List

Spec == Init /\ [][Next]_vars

\* ---------------------------------------------------- writes past the code
\* A digest no file of the model has, and a chain hash no archive produced.
OtherDigest == [sha256 |-> <<0>>]

OtherHash == ps_sha_hash(GENESIS, OtherDigest, 0)

\* The values a hand can put in a column of the table file: the values the
\* column holds in the rows of the table, and one value foreign to it.
ColumnValues(rows, field) ==
    IF field = "sha256"
    THEN {rows[i].sha256 : i \in 1..Len(rows)} \cup {OtherDigest}
    ELSE {rows[i].ps_sha : i \in 1..Len(rows)} \cup {OtherHash}
         \cup (IF field = "prev_ps_sha" THEN {GENESIS} ELSE {})

\* One column of one row of the table at DB_PATH is overwritten with a
\* different value, not through archive_file; at most once.
Tamper ==
    /\ tampered = NoTamper
    /\ \E k \in 1..Len(store), field \in {"sha256", "ps_sha", "prev_ps_sha"} :
          \E v \in ColumnValues(store, field) :
             /\ v # store[k][field]
             /\ store' = [store EXCEPT ![k][field] = v]
             /\ tampered' = [field |-> field, row |-> store'[k]]
    /\ result' = NoResult
    /\ UNCHANGED <<clock, twin, procs>>

NextTamper == Next \/ Tamper

SpecTamper == Init /\ [][NextTamper]_vars

\* ------------------------------------------------------- concurrent calls
\* The chain hash of the row inserted last, GENESIS for an empty table.
ChainTail(rows) == IF rows = <<>> THEN GENESIS ELSE rows[Len(rows)].ps_sha

\* The tags of the concurrent calls: the default of archive_file.
DefaultTags == {""}

\* archive_file up to its INSERT, in process w: the existence check and the
\* Snapshot built from the file and the clock; a missing or unreadable file raises in the
\* process and changes nothing.  Nothing is read from the table; tail notes
\* the chain tail at this moment, for the record only.
WriterBuild(w) ==
    /\ writers[w] = Idle
    /\ \E path \in Paths, tags \in DefaultTags :
          IF ~path_exists(path) \/ path \in Unreadable
          THEN UNCHANGED writers
          ELSE writers' = [writers EXCEPT ![w] =
                   [pc |-> "built", tail |-> ChainTail(store),
                    snap |-> MakeSnapshot(path, tags, GENESIS, clock)]]
    /\ UNCHANGED <<store, clock, result, twin, tampered, scan>>

\* The INSERT OR REPLACE of process w, one transaction of the database, and
\* the return of the call.
WriterInsert(w) ==
    /\ writers[w] # Idle
    /\ Len(InsertOrReplace(store, RowOf(writers[w].snap))) <= MaxEntries
    /\ store' = InsertOrReplace(store, RowOf(writers[w].snap))
    /\ writers' = [writers EXCEPT ![w] = Idle]
    /\ UNCHANGED <<clock, result, twin, tampered, scan>>

\* The SELECT of verify_chain with its fetchall: one statement.
ScanFetch ==
    /\ scan.pc # "fetched"
    /\ \E rows \in OrderedByArchivedAt(store) :
          scan' = [pc |-> "fetched",
                   rows |-> [i \in 1..Len(rows) |-> VerifyColumns(rows[i])]]
    /\ UNCHANGED <<store, clock, result, twin, tampered, writers>>

\* A loop that reads the rows archived after its SELECT from the table as
\* it goes.
ScanReport_Torn ==
    /\ scan.pc = "fetched"
    /\ \E rows \in OrderedByArchivedAt(store) :
          LET now == [i \in 1..Len(rows) |-> VerifyColumns(rows[i])]
              late == SelectSeq(now, LAMBDA r :
                         ~\E i \in 1..Len(scan.rows) : scan.rows[i] = r)
          IN  scan' = [pc |-> "reported",
                       report |-> verify_chain(scan.rows \o late)]
    /\ UNCHANGED <<store, clock, result, twin, tampered, writers>>

\* The loop of verify_chain over the fetched rows, and its return.
ScanReport ==
    /\ scan.pc = "fetched"
    /\ scan' = [pc |-> "reported", report |-> verify_chain(scan.rows)]
    /\ UNCHANGED <<store, clock, result, twin, tampered, writers>>

\* Two processes archive at the same time.
NextConc ==
    \/ Tick
    \/ \E w \in Writers : WriterBuild(w)
    \/ \E w \in Writers : WriterInsert(w)

SpecConc == Init /\ [][NextConc]_vars

\* One process archives while another verifies.
NextScan ==
    \/ Tick
    \/ WriterBuild(1)
    \/ WriterInsert(1)
    \/ ScanFetch
    \/ ScanReport

SpecScan == Init /\ [][NextScan]_vars

\* ------------------------------------------------- verify on any table
\* The chain hashes and the rows a table may hold once it has been written
\* to past the code: any chain hash and any predecessor of a small pool in
\* a row that was archived at the start or at the end of the clock.
HashPool == {ps_sha_hash(GENESIS, sha256_file(p), 0) : p \in DOMAIN FileContent}

AnyRows ==
    {[RowOf(MakeSnapshot(p, "", GENESIS, t)) EXCEPT !.ps_sha = ps,
                                                     !.prev_ps_sha = prev] :
        p \in DOMAIN FileContent, t \in {0, MaxClock},
        ps \in HashPool, prev \in HashPool \cup {GENESIS}}

RECURSIVE SeqsUpTo(_, _)
SeqsUpTo(S, n) ==
    IF n = 0 THEN {<<>>}
    ELSE SeqsUpTo(S, n - 1) \cup
         {Append(q, x) : q \in {r \in SeqsUpTo(S, n - 1) : Len(r) = n - 1}, x \in S}

\* The tables of at most MaxEntries rows, their keys distinct.
AnyTables ==
    {q \in SeqsUpTo(AnyRows, MaxEntries) :
        \A i, j \in 1..Len(q) : q[i].id = q[j].id => i = j}

InitAny ==
    /\ twin = {}
    /\ store \in AnyTables
    /\ clock = 0
    /\ result = NoResult
    /\ tampered = NoTamper
    /\ writers = [w \in Writers |-> Idle]
    /\ scan = Idle

\* verify_chain applied to any table.
SpecAny == InitAny /\ [][Verify]_vars

\* ------------------------------------------------------- updatePinLocator
\* The locators a pinning service hands back.
Locators == {[cid |-> "Qm1"]}

\* updatePinLocator that rewrites the predecessor of the entry as well.
updatePinLocator_TouchesChain(identity, locator) ==
    IF \E i \in 1..Len(store) : store[i].id = identity
    THEN /\ store' = [i \in 1..Len(store) |->
                        IF store[i].id = identity
                        THEN [store[i] EXCEPT !.ipfs_cid = locator,
                                              !.prev_ps_sha = OtherHash]
                        ELSE store[i]]
         /\ result' = [op |-> "pin"]
    ELSE /\ result' = [op |-> "pin", error |-> "NotFound"]
         /\ UNCHANGED store

\* updatePinLocator(identity, locator) of the ArchiveLog contract: sets the
\* ipfs_cid column of the row whose key is identity, NotFound without one.
updatePinLocator(identity, locator) ==
    IF \E i \in 1..Len(store) : store[i].id = identity
    THEN /\ store' = [i \in 1..Len(store) |->
                        IF store[i].id = identity
                        THEN [store[i] EXCEPT !.ipfs_cid = locator]
                        ELSE store[i]]
         /\ result' = [op |-> "pin"]
    ELSE /\ result' = [op |-> "pin", error |-> "NotFound"]
         /\ UNCHANGED store

\* The identities a caller may name: those of the table, and one unknown.
Identities == {store[i].id : i \in 1..Len(store)} \cup {Prefix16(OtherHash)}

UpdatePin ==
    /\ \E identity \in Identities, locator \in Locators :
          updatePinLocator(identity, locator)
    /\ UNCHANGED <<clock, twin, tampered, procs>>

\* The archive command given a path and no tags.
ArchiveUntagged ==
    /\ \E path \in Paths, tags \in DefaultTags :
          archive_file(path, tags, GENESIS)
    /\ UNCHANGED <<clock, twin, tampered, procs>>

NextPin == Tick \/ ArchiveUntagged \/ UpdatePin

SpecPin == Init /\ [][NextPin]_vars

\* ================================================================= claims
\* The rows of the table as verify_chain would fetch them in rowid order.
AppendOrder == [i \in 1..Len(store) |-> VerifyColumns(store[i])]

\* An archive command that stores a row.
ArchiveStores == Archive /\ "snap" \in DOMAIN result'

\* C1: every append stores, as the new entry's predecessor, the chain hash
\* of the entry appended last, and GENESIS exactly when the table is empty.
C1_AppendLinksToTail ==
    [][ArchiveStores =>
          store'[Len(store')].prev_ps_sha =
             (IF store = <<>> THEN GENESIS ELSE store[Len(store)].ps_sha)]_vars

Roots(rows) == {i \in 1..Len(rows) : rows[i].prev_ps_sha = GENESIS}

\* C2: a non-empty log built by appends alone holds exactly one entry whose
\* predecessor is GENESIS.
C2_ExactlyOneRoot == store # <<>> => Cardinality(Roots(store)) = 1

\* The entries other than i whose chain hash is the predecessor of entry i.
Predecessors(rows, i) ==
    {j \in 1..Len(rows) : j # i /\ rows[j].ps_sha = rows[i].prev_ps_sha}

\* The entries met walking the predecessor links back from entry i, in at
\* most fuel steps.
RECURSIVE WalkBack(_, _, _)
WalkBack(rows, i, fuel) ==
    IF fuel = 0 \/ Predecessors(rows, i) = {} THEN {i}
    ELSE {i} \cup WalkBack(rows, CHOOSE j \in Predecessors(rows, i) : TRUE, fuel - 1)

\* C3: in a log built by appends alone every entry that is not a root has
\* exactly one other entry as its predecessor, and the walk back from the
\* tail meets every entry.
C3_WalkBackReachesAll ==
    store # <<>> =>
       /\ \A i \in 1..Len(store) :
             i \notin Roots(store) => Cardinality(Predecessors(store, i)) = 1
       /\ WalkBack(store, Len(store), Len(store)) = 1..Len(store)

\* C4: after any number of appends and nothing else written to the table,
\* verify reports the log valid, with no issue.
C4_AppendsVerifyClean ==
    result.op = "verify" => result.valid /\ result.issues = <<>>

\* C4 witness: a verify of a log of two or more appended entries.
C4_Witness ==
    /\ result.op = "verify"
    /\ Len(result.rows) >= 2
    /\ result.rows = AppendOrder
    /\ result.valid

\* C5: after one stored contentDigest, chainHash or predecessorChainHash of
\* entry k is changed, verify reports an issue at position k or later.
C5_TamperDetected ==
    (result.op = "verify" /\ tampered # NoTamper) =>
       \A k \in 1..Len(result.rows) :
          result.rows[k] = VerifyColumns(tampered.row) =>
             \E n \in 1..Len(result.issues) : result.issues[n].entry + 1 >= k

\* The predecessor verify is to expect of the entry at position k.
ExpectedPredecessor(rows, k) == IF k = 1 THEN GENESIS ELSE rows[k - 1].ps_sha

\* C6: verify reports a linkage break at every position whose stored
\* predecessor differs from the chain hash of the entry before it (GENESIS
\* before the first).
C6_LinkageBreakReported ==
    result.op = "verify" =>
       \A k \in 1..Len(result.rows) :
          result.rows[k].prev_ps_sha # ExpectedPredecessor(result.rows, k) =>
             \E n \in 1..Len(result.issues) : result.issues[n].entry = k - 1

\* C7: verify reports as not valid every non-empty log whose number of
\* entries with predecessor GENESIS is not one.
C7_RootCountFlagged ==
    (result.op = "verify" /\ result.rows # <<>>
        /\ Cardinality(Roots(result.rows)) # 1) => ~result.valid

\* C8: an append whose identity is already in the table fails with a
\* duplicate-identity error and leaves the table as it was.
C8_DuplicateIdentityRejected ==
    [][(ArchiveStores
          /\ \E i \in 1..Len(store) : store[i].id = Snapshot_id(result'.snap))
       => (store' = store /\ "error" \in DOMAIN result')]_vars

\* C9: an entry once stored stays stored with the same contentDigest,
\* chainHash and predecessorChainHash, whatever operation runs.
C9_AppendOnly ==
    [][\A i \in 1..Len(store) : \E j \in 1..Len(store') :
          /\ store'[j].sha256 = store[i].sha256
          /\ store'[j].ps_sha = store[i].ps_sha
          /\ store'[j].prev_ps_sha = store[i].prev_ps_sha]_vars

\* C10: verify checks the entries in the order in which they were appended,
\* also when entries share archived_at.
C10_VerifyInAppendOrder == result.op = "verify" => result.rows = AppendOrder

\* C11: of two appends that run at the same time, the one whose INSERT comes
\* second (the chain tail has moved since it was built) never stores an
\* entry that claims the predecessor another stored entry claims.
C11_NoForkUnderRace ==
    [][\A w \in Writers :
          (WriterInsert(w) /\ ChainTail(store) # writers[w].tail) =>
             \A i \in 1..(Len(store') - 1) :
                store'[i].prev_ps_sha # store'[Len(store')].prev_ps_sha]_vars

\* A row with every column of the table, its hashes and its key set.
CompleteRow(r) ==
    /\ DOMAIN r = {"id", "path", "sha256", "ps_sha", "prev_ps_sha",
                   "size_bytes", "archived_at", "ipfs_cid", "tags"}
    /\ r.sha256 # None /\ r.ps_sha # None /\ r.prev_ps_sha # None
    /\ r.id = Prefix16(r.ps_sha)

\* C12: an archive either stores one complete entry and returns it, or
\* raises and leaves the table as it was; a path that is missing or cannot
\* be read raises; no row of the table ever lacks a field.
C12_AllOrNothing ==
    [][/\ \A i \in 1..Len(store') : CompleteRow(store'[i])
       /\ \A path \in Paths, tags \in Tags :
             (result'.op = "archive" /\ archive_file(path, tags, GENESIS)
                 /\ UNCHANGED <<clock, twin>>) =>
                IF path \in DOMAIN FileContent
                THEN /\ "snap" \in DOMAIN result'
                     /\ store' # <<>>
                     /\ store'[Len(store')] = RowOf(result'.snap)
                     /\ result'.snap.path = path
                     /\ \A i \in 1..Len(store) :
                           store[i].id # store'[Len(store')].id =>
                              \E j \in 1..Len(store') : store'[j] = store[i]
                ELSE "error" \in DOMAIN result' /\ store' = store]_vars

\* C12 witness: an archive has raised on a table that holds an entry.
C12_Witness ==
    /\ result.op = "archive"
    /\ "error" \in DOMAIN result
    /\ store # <<>>

\* The table verifies clean: verify_chain finds no issue in any order in
\* which its SELECT may return the rows.
VerifiesClean(rows) ==
    \A r \in OrderedByArchivedAt(rows) :
       verify_chain([i \in 1..Len(r) |-> VerifyColumns(r[i])]).valid

\* A row but for its pin locator.
WithoutPin(r) == [r EXCEPT !.ipfs_cid = None]

\* C13: updatePinLocator on a known identity sets the pinLocator of that
\* entry and changes no other field of any entry, so that a log that
\* verified clean still does; on an unknown identity it fails with NotFound
\* and changes nothing.
C13_PinOutsideIntegrity ==
    [][\A identity \in Identities, locator \in Locators :
          (result'.op = "pin" /\ updatePinLocator(identity, locator)
              /\ UNCHANGED <<clock, twin>>) =>
             IF \E i \in 1..Len(store) : store[i].id = identity
             THEN /\ "error" \notin DOMAIN result'
                  /\ Len(store') = Len(store)
                  /\ \A i \in 1..Len(store) :
                        /\ WithoutPin(store'[i]) = WithoutPin(store[i])
                        /\ store[i].id # identity => store'[i] = store[i]
                        /\ store[i].id = identity => store'[i].ipfs_cid = locator
                  /\ VerifiesClean(store) => VerifiesClean(store')
             ELSE /\ "error" \in DOMAIN result' /\ result'.error = "NotFound"
                  /\ store' = store]_vars

\* C13 witness: a pin locator is stored in a log of two entries, one of
\* them without a locator.
C13_Witness ==
    /\ result = [op |-> "pin"]
    /\ Len(store) >= 2
    /\ \E i, j \in 1..Len(store) :
          store[i].ipfs_cid # None /\ store[j].ipfs_cid = None
    /\ VerifiesClean(store)

\* C14: verify leaves the table as it finds it, whatever it reports.
C14_VerifyReadOnly ==
    [][(result'.op = "verify" /\ result' # result) => store' = store]_vars

\* C14 witness: a verify has reported a table of two entries not valid.
C14_Witness ==
    /\ result.op = "verify"
    /\ ~result.valid
    /\ Len(store) >= 2
    /\ Len(result.rows) = Len(store)

\* The values of a timestamp a stored row gives back: its archived_at, as
\* seconds or scaled to the unit of the clock.
StoredTimestamps(row) == {row.archived_at, row.archived_at * NsPerSec}

\* C15: every stored chain hash is the link of its predecessor, its
\* content digest and a timestamp the row gives back.
C15_TimestampRetained ==
    \A i \in 1..Len(store) :
        \E t \in StoredTimestamps(store[i]) :
            store[i].ps_sha = ps_sha_hash(store[i].prev_ps_sha, store[i].sha256, t)

\* C16: every key is the first 16 digits of the row's chain hash, and no
\* two rows share a key.
C16_IdentityDerived ==
    /\ \A i \in 1..Len(store) : store[i].id = Prefix16(store[i].ps_sha)
    /\ \A i, j \in 1..Len(store) : store[i].id = store[j].id => i = j

\* C16 witness: two rows are stored, the second by the last archive, where
\* two chain hashes share their first 16 digits.
C16_Witness ==
    /\ twin # {}
    /\ Len(store) = 2
    /\ result.op = "archive"
    /\ "snap" \in DOMAIN result
    /\ store[2].ps_sha = result.snap.ps_sha

\* C17: a verify that runs while another process archives takes the rows
\* of the table at the one instant of its SELECT, keeps them whatever is
\* archived meanwhile, and reports on exactly them.
C17_ConsistentSnapshot ==
    [][/\ (scan.pc # "fetched" /\ scan'.pc = "fetched") =>
             \E rows \in OrderedByArchivedAt(store) :
                scan'.rows = [i \in 1..Len(rows) |-> VerifyColumns(rows[i])]
       /\ (scan.pc = "fetched" /\ scan'.pc = "fetched") => scan'.rows = scan.rows
       /\ (scan.pc = "fetched" /\ scan'.pc = "reported") =>
             scan'.report = verify_chain(scan.rows)]_vars

\* C17 witness: a verify has fetched the rows of a table that held one, and
\* an archive has stored another before the verify reports.
C17_Witness ==
    /\ scan.pc = "fetched"
    /\ Len(scan.rows) >= 1
    /\ Len(store) > Len(scan.rows)

\* The positions of a scan that verify_chain takes for a break: the stored
\* predecessor is neither GENESIS nor the chain hash of the row before.
BreakingPositions(rows) ==
    {k \in 1..Len(rows) :
        /\ rows[k].prev_ps_sha # GENESIS
        /\ rows[k].prev_ps_sha # ExpectedPredecessor(rows, k)}

Pairs(rows) ==
    [i \in 1..Len(rows) |-> <<rows[i].ps_sha, rows[i].prev_ps_sha>>]

\* The test a row of a scan of pairs passes.
PairPasses(pairs, k) ==
    \/ pairs[k][2] = GENESIS
    \/ k > 1 /\ pairs[k][2] = pairs[k - 1][1]

\* The scans of the same pairs with other content digests.
SamePairs(rows) ==
    {[i \in 1..Len(rows) |-> [rows[i] EXCEPT !.sha256 = d[i]]] :
        d \in [1..Len(rows) -> {sha256_file(p) : p \in DOMAIN FileContent}]}

\* C19: the result of verify_chain depends on the pairs of the scan only;
\* it is valid exactly when every row passes the test, it holds one message
\* for each row that fails, in the order of the scan, and the empty scan
\* is valid without issues.
C19_FunctionOfPairs ==
    result.op = "verify" =>
        LET pairs == Pairs(result.rows)
            failing == {k \in 1..Len(pairs) : ~PairPasses(pairs, k)}
        IN  /\ result.valid <=> failing = {}
            /\ Len(result.issues) = Cardinality(failing)
            /\ \A k \in failing :
                  result.issues[Cardinality({j \in failing : j <= k})]
                     = ChainBreak(k - 1)
            /\ result.rows = <<>> => result.valid /\ result.issues = <<>>
            /\ \A other \in SamePairs(result.rows) :
                  /\ verify_chain(other).valid = result.valid
                  /\ verify_chain(other).issues = result.issues

\* C19 witness: a verify has reported a scan of two rows of which the
\* second follows the first and the first fails the test.
C19_Witness ==
    /\ result.op = "verify"
    /\ Len(result.rows) = 2
    /\ result.rows[2].prev_ps_sha = result.rows[1].ps_sha
    /\ result.rows[1].prev_ps_sha # GENESIS
    /\ ~result.valid
====
